---- MODULE Spec2Model ----
(***************************************************************************)
(* The zod-v3-to-v4 command line entry point (src/src/index.ts): argument  *)
(* check, validateFilePath, findClosestTsConfig, the scoped ts-morph       *)
(* project, the call of migrateZodV3ToV4 with its catch block, and         *)
(* project.save().                                                         *)
(*                                                                         *)
(* A path is a sequence of components counted from the filesystem root     *)
(* (<<>> is the root itself); a component is a sequence of tokens, where   *)
(* the token "." is a dot and every other token is a run of characters     *)
(* without a dot, so that path.extname can be computed as node computes    *)
(* it.                                                                     *)
(***************************************************************************)
EXTENDS Integers, Sequences, FiniteSets, TLC

VARIABLES argv, cwd, disk0, autoLoaded, disk, pc, absoluteFilePath, currentDir, tsConfigFilePath,
          project, raised, thrown, stderr, stdout, fsLog, exitCode, done

vars == <<argv, cwd, disk0, autoLoaded, disk, pc, absoluteFilePath, currentDir, tsConfigFilePath,
          project, raised, thrown, stderr, stdout, fsLog, exitCode, done>>

\* ------------------------------------------------------------------ bounds
MaxDepth == 3   \* deepest directory of a target file below the root
MaxAuto == 2    \* most source files other than the target in a tsconfig
MaxEdits == 2   \* most in-place edits the transform makes to the tree

\* ------------------------------------------------------------------ values
Dot == "."
Undefined == [abs |-> FALSE, comps |-> <<<<"undefined">>>>, undef |-> TRUE]
Null == <<<<"null">>>>
NoExit == -1
NoError == [isError |-> FALSE, message |-> "", none |-> TRUE]

\* an exception of the AST engine or of the filesystem, and the path it is about
Thrown(kind, abspath) == [kind |-> kind, path |-> abspath]
NoThrow == Thrown("none", Null)

DirName == <<"d">>
TsConfigName == <<"tsconfig", Dot, "json">>

BaseNames ==
  { <<"a", Dot, "ts">>, <<"a", Dot, "tsx">>, <<"a", Dot, "js">>,
    <<"a", Dot, "jsx">>, <<"a", Dot, "d", Dot, "ts">>, <<Dot, "a", Dot, "ts">>,
    <<"a", Dot, "md">>, <<"a", Dot, "TS">>, <<"a", Dot, "ts", Dot, "md">>,
    <<"a">>, <<Dot, "ts">>, <<"a", Dot>> }

DirAt(d) == [i \in 1..d |-> DirName]

OtherPath(i) == [k \in 1..i |-> <<"lib">>] \o << <<"o", Dot, "ts">> >>

Others == { OtherPath(i) : i \in 1..MaxAuto }

\* what a thrown value can be: an Error with a message, or a value that is
\* not an Error and has no message
Messages == {"", "boom"}
RaisedValues == { [isError |-> TRUE, message |-> m, none |-> FALSE] : m \in Messages }
                \cup { [isError |-> FALSE, message |-> "", none |-> FALSE] }

\* ------------------------------------------------------------ path module
Str(comps, isAbs) == [abs |-> isAbs, comps |-> comps, undef |-> FALSE]

PathResolve(p) == IF p.abs THEN p.comps ELSE cwd \o p.comps

PathDirname(dir) == IF Len(dir) = 0 THEN dir ELSE SubSeq(dir, 1, Len(dir) - 1)

PathJoin(dir, name) == Append(dir, name)

LastDot(b) == IF \E i \in 1..Len(b) : b[i] = Dot
              THEN CHOOSE i \in 1..Len(b) :
                     b[i] = Dot /\ \A j \in (i+1)..Len(b) : b[j] # Dot
              ELSE 0

ExtOfBase(b) == IF LastDot(b) <= 1 THEN <<>> ELSE SubSeq(b, LastDot(b), Len(b))

PathExtname(p) == IF Len(p.comps) = 0 THEN <<>> ELSE ExtOfBase(p.comps[Len(p.comps)])

\* -------------------------------------------------------------- fs module
ExistsSync(abspath) == abspath \in DOMAIN disk

FsOp(op, abspath) == [op |-> op, path |-> abspath]

\* ----------------------------------------------------------- diagnostics
Lit(s) == [t |-> "lit", v |-> s]
Arg(p) == [t |-> "arg", v |-> p]
PathPart(p) == [t |-> "path", v |-> p]
Msg(m) == [t |-> "msg", v |-> m]

\* ------------------------------------------------------- validateFilePath
validExtensions == { <<Dot, "ts">>, <<Dot, "tsx">>, <<Dot, "js">>, <<Dot, "jsx">> }

ReasonExtension == "Please enter a valid TypeScript/JavaScript file path (.ts, .tsx, .js, .jsx)."
ReasonNotFound == "File not found."

\* validateFilePath without its extension test
validateFilePath_NoExtensionTest(filePath) ==
  IF ~ExistsSync(PathResolve(filePath))
  THEN [success |-> FALSE, reason |-> ReasonNotFound,
        probes |-> <<FsOp("exists", PathResolve(filePath))>>]
  ELSE [success |-> TRUE, reason |-> "",
        probes |-> <<FsOp("exists", PathResolve(filePath))>>]

validateFilePath(filePath) ==
  IF PathExtname(filePath) \notin validExtensions
  THEN [success |-> FALSE, reason |-> ReasonExtension, probes |-> <<>>]
  ELSE IF ~ExistsSync(PathResolve(filePath))
  THEN [success |-> FALSE, reason |-> ReasonNotFound,
        probes |-> <<FsOp("exists", PathResolve(filePath))>>]
  ELSE [success |-> TRUE, reason |-> "",
        probes |-> <<FsOp("exists", PathResolve(filePath))>>]

\* ------------------------------------------------------------------ state
filePath == IF Len(argv) >= 1 THEN argv[1] ELSE Undefined

Falsy(p) == p.undef \/ (~p.abs /\ p.comps = <<>>)

Layouts ==
  { [dir |-> DirAt(d), base |-> b, kind |-> k, cfg |-> c] :
      d \in 0..MaxDepth, b \in BaseNames, k \in {"file", "dir", "absent"},
      c \in SUBSET (0..MaxDepth) }

DiskOf(l) ==
  LET target == PathJoin(l.dir, l.base)
      cfgs == { PathJoin(DirAt(i), TsConfigName) : i \in l.cfg }
      paths == cfgs \cup Others \cup (IF l.kind = "absent" THEN {} ELSE {target})
  IN [p \in paths |->
        [kind |-> IF p = target /\ l.kind = "dir" THEN "dir" ELSE "file", text |-> 0]]

Init ==
  /\ \E l \in Layouts :
       /\ l.cfg \subseteq 0..Len(l.dir)
       /\ disk = DiskOf(l)
       /\ disk0 = DiskOf(l)
       /\ \/ cwd = <<>> /\ argv = <<Str(PathJoin(l.dir, l.base), TRUE)>>
          \/ cwd = l.dir /\ argv = <<Str(<<l.base>>, FALSE)>>
          \/ cwd = l.dir /\ argv = <<>> /\ l.base = <<"a">> /\ l.kind = "absent"
          \/ cwd = l.dir /\ argv = <<Str(<<>>, FALSE)>> /\ l.base = <<"a">> /\ l.kind = "absent"
  /\ pc = "start"
  /\ autoLoaded = {}
  /\ absoluteFilePath = Null
  /\ currentDir = Null
  /\ tsConfigFilePath = Null
  /\ project = << >>
  /\ raised = NoError
  /\ thrown = NoThrow
  /\ stderr = <<>>
  /\ stdout = <<>>
  /\ fsLog = <<>>
  /\ exitCode = NoExit
  /\ done = {}

\* ------------------------------------------------------ top-level script
MissingArgument ==
  /\ pc = "start"
  /\ Falsy(filePath)
  /\ stderr' = stderr \o << <<Lit("Error: No file path provided.")>>,
                            <<Lit("Usage: zod-v3-to-v4 <path-to-file>")>> >>
  /\ pc' = "exit1"
  /\ UNCHANGED <<argv, cwd, disk0, autoLoaded, disk, absoluteFilePath, currentDir, tsConfigFilePath,
                 project, raised, thrown, stdout, fsLog, exitCode, done>>

ArgumentGiven ==
  /\ pc = "start"
  /\ ~Falsy(filePath)
  /\ pc' = "validate"
  /\ UNCHANGED <<argv, cwd, disk0, autoLoaded, disk, absoluteFilePath, currentDir, tsConfigFilePath,
                 project, raised, thrown, stderr, stdout, fsLog, exitCode, done>>

\* the rejection without process.exit(1): the script goes on to runMigration
ValidateRejected_NoExit ==
  /\ pc = "validate"
  /\ LET isValid == validateFilePath(filePath) IN
       /\ ~isValid.success
       /\ fsLog' = fsLog \o isValid.probes
       /\ stderr' = Append(stderr, <<Lit("Error: \""), Arg(filePath),
                                     Lit("\" is not a valid TypeScript file. "),
                                     Lit(isValid.reason)>>)
  /\ pc' = "run"
  /\ UNCHANGED <<argv, cwd, disk0, autoLoaded, disk, absoluteFilePath, currentDir, tsConfigFilePath,
                 project, raised, thrown, stdout, exitCode, done>>

ValidateRejected ==
  /\ pc = "validate"
  /\ LET isValid == validateFilePath(filePath) IN
       /\ ~isValid.success
       /\ fsLog' = fsLog \o isValid.probes
       /\ stderr' = Append(stderr, <<Lit("Error: \""), Arg(filePath),
                                     Lit("\" is not a valid TypeScript file. "),
                                     Lit(isValid.reason)>>)
  /\ pc' = "exit1"
  /\ UNCHANGED <<argv, cwd, disk0, autoLoaded, disk, absoluteFilePath, currentDir, tsConfigFilePath,
                 project, raised, thrown, stdout, exitCode, done>>

ValidateAccepted ==
  /\ pc = "validate"
  /\ LET isValid == validateFilePath(filePath) IN
       /\ isValid.success
       /\ fsLog' = fsLog \o isValid.probes
  /\ done' = done \cup {"validated"}
  /\ pc' = "run"
  /\ UNCHANGED <<argv, cwd, disk0, autoLoaded, disk, absoluteFilePath, currentDir, tsConfigFilePath,
                 project, raised, thrown, stderr, stdout, exitCode>>

\* process.exit() with the default code
ProcessExit_CodeZero ==
  /\ pc = "exit1"
  /\ exitCode' = 0
  /\ pc' = "exited"
  /\ UNCHANGED <<argv, cwd, disk0, autoLoaded, disk, absoluteFilePath, currentDir, tsConfigFilePath,
                 project, raised, thrown, stderr, stdout, fsLog, done>>

ProcessExit ==
  /\ pc = "exit1"
  /\ exitCode' = 1
  /\ pc' = "exited"
  /\ UNCHANGED <<argv, cwd, disk0, autoLoaded, disk, absoluteFilePath, currentDir, tsConfigFilePath,
                 project, raised, thrown, stderr, stdout, fsLog, done>>

\* ------------------------------------------------------------ runMigration
RunMigration ==
  /\ pc = "run"
  /\ absoluteFilePath' = PathResolve(filePath)
  /\ currentDir' = PathDirname(PathResolve(filePath))
  /\ pc' = "walk"
  /\ UNCHANGED <<argv, cwd, disk0, autoLoaded, disk, tsConfigFilePath, project, raised, thrown,
                 stderr, stdout, fsLog, exitCode, done>>

\* one iteration of the loop of findClosestTsConfig
\* the loop without its return on a hit: it records the hit and climbs on
WalkFound_ClimbsOn ==
  /\ pc = "walk"
  /\ LET tsConfigPath == PathJoin(currentDir, TsConfigName)
         parentDir == PathDirname(currentDir) IN
       /\ fsLog' = Append(fsLog, FsOp("exists", tsConfigPath))
       /\ ExistsSync(tsConfigPath)
       /\ tsConfigFilePath' = tsConfigPath
       /\ currentDir' = parentDir
       /\ pc' = IF parentDir = currentDir THEN "located" ELSE "walk"
  /\ UNCHANGED <<argv, cwd, disk0, autoLoaded, disk, absoluteFilePath, project, raised,
                 thrown, stderr, stdout, exitCode, done>>

WalkFound ==
  /\ pc = "walk"
  /\ LET tsConfigPath == PathJoin(currentDir, TsConfigName) IN
       /\ fsLog' = Append(fsLog, FsOp("exists", tsConfigPath))
       /\ ExistsSync(tsConfigPath)
       /\ tsConfigFilePath' = tsConfigPath
  /\ pc' = "located"
  /\ UNCHANGED <<argv, cwd, disk0, autoLoaded, disk, absoluteFilePath, currentDir, project, raised,
                 thrown, stderr, stdout, exitCode, done>>

WalkRoot ==
  /\ pc = "walk"
  /\ LET tsConfigPath == PathJoin(currentDir, TsConfigName)
         parentDir == PathDirname(currentDir) IN
       /\ fsLog' = Append(fsLog, FsOp("exists", tsConfigPath))
       /\ ~ExistsSync(tsConfigPath)
       /\ parentDir = currentDir
       /\ tsConfigFilePath' = Null
  /\ pc' = "located"
  /\ UNCHANGED <<argv, cwd, disk0, autoLoaded, disk, absoluteFilePath, currentDir, project, raised,
                 thrown, stderr, stdout, exitCode, done>>

\* the loop climbing two directories at a time
WalkUp_SkipsParent ==
  /\ pc = "walk"
  /\ LET tsConfigPath == PathJoin(currentDir, TsConfigName)
         parentDir == PathDirname(currentDir) IN
       /\ fsLog' = Append(fsLog, FsOp("exists", tsConfigPath))
       /\ ~ExistsSync(tsConfigPath)
       /\ parentDir # currentDir
       /\ currentDir' = PathDirname(parentDir)
  /\ UNCHANGED <<argv, cwd, disk0, autoLoaded, disk, pc, absoluteFilePath, tsConfigFilePath, project,
                 raised, thrown, stderr, stdout, exitCode, done>>

WalkUp ==
  /\ pc = "walk"
  /\ LET tsConfigPath == PathJoin(currentDir, TsConfigName)
         parentDir == PathDirname(currentDir) IN
       /\ fsLog' = Append(fsLog, FsOp("exists", tsConfigPath))
       /\ ~ExistsSync(tsConfigPath)
       /\ parentDir # currentDir
       /\ currentDir' = parentDir
  /\ UNCHANGED <<argv, cwd, disk0, autoLoaded, disk, pc, absoluteFilePath, tsConfigFilePath, project,
                 raised, thrown, stderr, stdout, exitCode, done>>

\* the missing-configuration branch without process.exit(1)
NoTsConfig_NoExit ==
  /\ pc = "located"
  /\ tsConfigFilePath = Null
  /\ stderr' = Append(stderr,
       <<Lit("Error: No tsconfig.json found. Please ensure there's a tsconfig.json in the project.")>>)
  /\ pc' = "construct"
  /\ UNCHANGED <<argv, cwd, disk0, autoLoaded, disk, absoluteFilePath, currentDir, tsConfigFilePath,
                 project, raised, thrown, stdout, fsLog, exitCode, done>>

NoTsConfig ==
  /\ pc = "located"
  /\ tsConfigFilePath = Null
  /\ stderr' = Append(stderr,
       <<Lit("Error: No tsconfig.json found. Please ensure there's a tsconfig.json in the project.")>>)
  /\ pc' = "exit1"
  /\ UNCHANGED <<argv, cwd, disk0, autoLoaded, disk, absoluteFilePath, currentDir, tsConfigFilePath,
                 project, raised, thrown, stdout, fsLog, exitCode, done>>

TsConfigLocated ==
  /\ pc = "located"
  /\ tsConfigFilePath # Null
  /\ stdout' = stdout \o << <<Lit("Found tsconfig.json at: "), PathPart(tsConfigFilePath)>>,
                            <<Lit("Processing file: "), PathPart(absoluteFilePath)>> >>
  /\ done' = done \cup {"located"}
  /\ pc' = "construct"
  /\ UNCHANGED <<argv, cwd, disk0, autoLoaded, disk, absoluteFilePath, currentDir, tsConfigFilePath,
                 project, raised, thrown, stderr, fsLog, exitCode>>

\* the files a tsconfig.json can list: any of the other source files, and the
\* target itself when it is a file
Loadable == Others \cup { p \in {absoluteFilePath} : ExistsSync(p) /\ disk[p].kind = "file" }

Loaded(p) == [text |-> disk[p].text, saved |-> TRUE]

NewProject ==
  /\ pc = "construct"
  /\ \E auto \in SUBSET Loadable :
       /\ project' = [p \in auto |-> Loaded(p)]
       /\ autoLoaded' = auto
  /\ fsLog' = Append(fsLog, FsOp("read", tsConfigFilePath))
  /\ pc' = "purge"
  /\ UNCHANGED <<argv, cwd, disk0, disk, absoluteFilePath, currentDir, tsConfigFilePath,
                 raised, thrown, stderr, stdout, exitCode, done>>

NewProjectThrows ==
  /\ pc = "construct"
  /\ fsLog' = Append(fsLog, FsOp("read", tsConfigFilePath))
  /\ thrown' = Thrown("ProjectError", tsConfigFilePath)
  /\ pc' = "uncaught"
  /\ UNCHANGED <<argv, cwd, disk0, autoLoaded, disk, absoluteFilePath, currentDir, tsConfigFilePath,
                 project, raised, stderr, stdout, exitCode, done>>

removeSourceFile(proj, file) == [p \in DOMAIN proj \ {file} |-> proj[p]]

RECURSIVE ForEachRemove(_, _)
ForEachRemove(proj, files) ==
  IF files = {} THEN proj
  ELSE LET file == CHOOSE f \in files : TRUE
       IN ForEachRemove(removeSourceFile(proj, file), files \ {file})

\* the purge removing while it iterates the live list: every other file stays
RemoveAutoLoaded_SkipsEveryOther ==
  /\ pc = "purge"
  /\ project' = IF DOMAIN project = {} THEN project
                ELSE LET kept == CHOOSE f \in DOMAIN project : f # absoluteFilePath \/ DOMAIN project = {f}
                     IN IF Cardinality(DOMAIN project) = 1 THEN ForEachRemove(project, DOMAIN project)
                        ELSE ForEachRemove(project, DOMAIN project \ {kept})
  /\ pc' = "add"
  /\ UNCHANGED <<argv, cwd, disk0, autoLoaded, disk, absoluteFilePath, currentDir, tsConfigFilePath,
                 raised, thrown, stderr, stdout, fsLog, exitCode, done>>

RemoveAutoLoaded ==
  /\ pc = "purge"
  /\ project' = ForEachRemove(project, DOMAIN project)
  /\ pc' = "add"
  /\ UNCHANGED <<argv, cwd, disk0, autoLoaded, disk, absoluteFilePath, currentDir, tsConfigFilePath,
                 raised, thrown, stderr, stdout, fsLog, exitCode, done>>

addSourceFileAtPath(proj, p) ==
  IF p \in DOMAIN proj THEN proj
  ELSE [q \in DOMAIN proj \cup {p} |-> IF q = p THEN Loaded(p) ELSE proj[q]]

AddSourceFile ==
  /\ pc = "add"
  /\ disk[absoluteFilePath].kind = "file"
  /\ project' = addSourceFileAtPath(project, absoluteFilePath)
  /\ fsLog' = Append(fsLog, FsOp("read", absoluteFilePath))
  /\ done' = done \cup {"built"}
  /\ pc' = "transform"
  /\ UNCHANGED <<argv, cwd, disk0, autoLoaded, disk, absoluteFilePath, currentDir, tsConfigFilePath,
                 raised, thrown, stderr, stdout, exitCode>>

\* the target cannot be loaded: it is a directory, or reading it fails
AddSourceFileThrows ==
  /\ pc = "add"
  /\ fsLog' = Append(fsLog, FsOp("read", absoluteFilePath))
  /\ thrown' = Thrown("ParseError", absoluteFilePath)
  /\ pc' = "uncaught"
  /\ UNCHANGED <<argv, cwd, disk0, autoLoaded, disk, absoluteFilePath, currentDir, tsConfigFilePath,
                 project, raised, stderr, stdout, exitCode, done>>

\* migrateZodV3ToV4(sourceFile, ...): edits the tree of sourceFile in place,
\* then returns or throws
TransformEdit ==
  /\ pc = "transform"
  /\ project[absoluteFilePath].text < MaxEdits
  /\ project' = [project EXCEPT ![absoluteFilePath] =
                   [text |-> @.text + 1, saved |-> FALSE]]
  /\ UNCHANGED <<argv, cwd, disk0, autoLoaded, disk, pc, absoluteFilePath, currentDir, tsConfigFilePath,
                 raised, thrown, stderr, stdout, fsLog, exitCode, done>>

TransformReturns ==
  /\ pc = "transform"
  /\ done' = done \cup {"transformed"}
  /\ pc' = "save"
  /\ UNCHANGED <<argv, cwd, disk0, autoLoaded, disk, absoluteFilePath, currentDir, tsConfigFilePath,
                 project, raised, thrown, stderr, stdout, fsLog, exitCode>>

TransformThrows ==
  /\ pc = "transform"
  /\ \E err \in RaisedValues : raised' = err
  /\ pc' = "catch"
  /\ UNCHANGED <<argv, cwd, disk0, autoLoaded, disk, absoluteFilePath, currentDir, tsConfigFilePath,
                 project, thrown, stderr, stdout, fsLog, exitCode, done>>

IssuesPointer == "\n\nPlease report this at https://github.com/nicoespeon/zod-v3-to-v4/issues"

\* the message built without the instanceof test
FailureMessage_NoInstanceofTest(sourceFilePath, err) ==
  <<Lit("Failed to migrate "), PathPart(sourceFilePath)>>
  \o <<Lit("\nReason: "), Msg(err.message)>>
  \o <<Lit(IssuesPointer)>>

FailureMessage(sourceFilePath, err) ==
  <<Lit("Failed to migrate "), PathPart(sourceFilePath)>>
  \o (IF err.isError THEN <<Lit("\nReason: "), Msg(err.message)>> ELSE <<>>)
  \o <<Lit(IssuesPointer)>>

\* the catch block without process.exit(1): control falls through to the save
CatchBlock_FallsThrough ==
  /\ pc = "catch"
  /\ stderr' = Append(stderr, FailureMessage(absoluteFilePath, raised))
  /\ pc' = "save"
  /\ UNCHANGED <<argv, cwd, disk0, autoLoaded, disk, absoluteFilePath, currentDir, tsConfigFilePath,
                 project, raised, thrown, stdout, fsLog, exitCode, done>>

CatchBlock ==
  /\ pc = "catch"
  /\ stderr' = Append(stderr, FailureMessage(absoluteFilePath, raised))
  /\ pc' = "exit1"
  /\ UNCHANGED <<argv, cwd, disk0, autoLoaded, disk, absoluteFilePath, currentDir, tsConfigFilePath,
                 project, raised, thrown, stdout, fsLog, exitCode, done>>

\* project.save(): every unsaved source file of the project is written to
\* its own path
Unsaved(proj) == { p \in DOMAIN proj : ~proj[p].saved }

RECURSIVE WritesOf(_, _)
WritesOf(proj, files) ==
  IF files = {} THEN <<>>
  ELSE LET file == CHOOSE f \in files : TRUE
       IN <<FsOp("write", file)>> \o WritesOf(proj, files \ {file})

Torn == -1

Save ==
  /\ pc = "save"
  /\ fsLog' = fsLog \o WritesOf(project, Unsaved(project))
  /\ disk' = [p \in DOMAIN disk \cup Unsaved(project) |->
                IF p \in Unsaved(project)
                THEN [kind |-> "file", text |-> project[p].text]
                ELSE disk[p]]
  /\ project' = [p \in DOMAIN project |-> [project[p] EXCEPT !.saved = TRUE]]
  /\ done' = done \cup {"saved"}
  /\ pc' = "finish"
  /\ UNCHANGED <<argv, cwd, disk0, autoLoaded, absoluteFilePath, currentDir, tsConfigFilePath,
                 raised, thrown, stderr, stdout, exitCode>>

\* the write of an unsaved file fails: the file keeps its content or is torn
SaveThrows ==
  /\ pc = "save"
  /\ \E file \in Unsaved(project) :
       /\ fsLog' = Append(fsLog, FsOp("write", file))
       /\ \E text \in {disk[file].text, Torn} :
            disk' = [disk EXCEPT ![file] = [kind |-> "file", text |-> text]]
       /\ thrown' = Thrown("WriteError", file)
  /\ pc' = "uncaught"
  /\ UNCHANGED <<argv, cwd, disk0, autoLoaded, absoluteFilePath, currentDir, tsConfigFilePath,
                 project, raised, stderr, stdout, exitCode, done>>

Finish ==
  /\ pc = "finish"
  /\ stdout' = Append(stdout, <<Lit("File has been migrated successfully.")>>)
  /\ exitCode' = 0
  /\ pc' = "exited"
  /\ UNCHANGED <<argv, cwd, disk0, autoLoaded, disk, absoluteFilePath, currentDir, tsConfigFilePath,
                 project, raised, thrown, stderr, fsLog, done>>

\* a rejection of runMigration that nothing catches ends the process
UncaughtRejection ==
  /\ pc = "uncaught"
  /\ stderr' = Append(stderr, <<[t |-> "uncaught", v |-> thrown.kind], PathPart(thrown.path)>>)
  /\ exitCode' = 1
  /\ pc' = "exited"
  /\ UNCHANGED <<argv, cwd, disk0, autoLoaded, disk, absoluteFilePath, currentDir, tsConfigFilePath,
                 project, raised, thrown, stdout, fsLog, done>>

Next ==
  \/ MissingArgument
  \/ ArgumentGiven
  \/ ValidateRejected
  \/ ValidateAccepted
  \/ ProcessExit
  \/ RunMigration
  \/ WalkFound
  \/ WalkRoot
  \/ WalkUp
  \/ NoTsConfig
  \/ TsConfigLocated
  \/ NewProject
  \/ NewProjectThrows
  \/ RemoveAutoLoaded
  \/ AddSourceFile
  \/ AddSourceFileThrows
  \/ TransformEdit
  \/ TransformReturns
  \/ TransformThrows
  \/ CatchBlock
  \/ Save
  \/ SaveThrows
  \/ Finish
  \/ UncaughtRejection

Spec == Init /\ [][Next]_vars

FairSpec == Spec /\ WF_vars(Next)

\* ============================================================ properties
\* what the run was given, read off the arguments and the disk at the start
Given == ~Falsy(filePath)

Target == PathResolve(filePath)

BaseOf(p) == p.comps[Len(p.comps)]

\* the base name ends in a dot, not its first character, and a recognized suffix
RecognizedExtension(p) ==
  /\ Len(p.comps) >= 1
  /\ Len(BaseOf(p)) >= 3
  /\ BaseOf(p)[Len(BaseOf(p)) - 1] = Dot
  /\ BaseOf(p)[Len(BaseOf(p))] \in {"ts", "tsx", "js", "jsx"}

PathPresent == Target \in DOMAIN disk0

IsFile == PathPresent /\ disk0[Target].kind = "file"

StartDir == SubSeq(Target, 1, Len(Target) - 1)

AncestorsWithConfig ==
  { k \in 0..Len(StartDir) : Append(SubSeq(StartDir, 1, k), TsConfigName) \in DOMAIN disk0 }

Writes == SelectSeq(fsLog, LAMBDA e : e.op = "write")

ConfigProbes ==
  SelectSeq(fsLog, LAMBDA e : e.op = "exists" /\ e.path[Len(e.path)] = TsConfigName)

Stages == {"validated", "located", "built", "transformed", "saved"}

Carries(diag, t, v) == \E i \in 1..Len(diag) : diag[i].t = t /\ diag[i].v = v

CarriesFilePath(diag) == Carries(diag, "arg", filePath) \/ Carries(diag, "path", Target)

NamesAPath(diag) == \E i \in 1..Len(diag) : diag[i].t \in {"arg", "path"}

\* C1: once the transform has raised, whatever it raised and however many
\* edits it had made, the save is never reached, nothing is written, and the
\* disk is what it was before the invocation.
C1_RaiseLeavesDiskUntouched ==
  raised # NoError =>
    /\ disk = disk0
    /\ Writes = <<>>
    /\ pc \in {"catch", "exit1", "exited"}
    /\ "saved" \notin done

C1_Witness ==
  /\ pc = "exited"
  /\ raised # NoError
  /\ ~raised.isError
  /\ project[absoluteFilePath].text = MaxEdits
  /\ ~project[absoluteFilePath].saved

\* C2: the writes of a run are none, or one write to the resolved path of the
\* target; a write happens only after validation, configuration lookup,
\* project construction and the transform all succeeded; no other path of the
\* disk changes.
C2_OnlyTheTargetOnceOnSuccess ==
  /\ Len(Writes) <= 1
  /\ \A i \in 1..Len(Writes) : Writes[i].path = Target
  /\ Writes # <<>> =>
       /\ Given /\ RecognizedExtension(filePath) /\ IsFile
       /\ AncestorsWithConfig # {}
       /\ {"validated", "located", "built", "transformed"} \subseteq done
       /\ raised = NoError
  /\ DOMAIN disk = DOMAIN disk0
  /\ \A p \in DOMAIN disk : (~Given \/ p # Target) => disk[p] = disk0[p]

C2_Witness ==
  /\ pc = "exited"
  /\ exitCode = 0
  /\ Len(Writes) = 1
  /\ disk[Target].text = MaxEdits
  /\ Cardinality(autoLoaded) = MaxAuto + 1

\* C3: from the moment the target has been added, the project holds exactly
\* one source file, the target, however many files the configuration loaded
\* and whether or not the target was one of them.
C3_SingleMember ==
  "built" \in done =>
    /\ DOMAIN project = {Target}
    /\ Cardinality(DOMAIN project) = 1

C3_Witness ==
  /\ pc = "exited"
  /\ "built" \in done
  /\ Target \in autoLoaded
  /\ Cardinality(autoLoaded) = MaxAuto + 1

\* C4: findClosestTsConfig returns the tsconfig.json of the nearest ancestor
\* of the start directory (itself and the root included) that has one, and
\* null exactly when none has.
C4_NearestConfig ==
  (pc \notin {"start", "validate", "run", "walk"} /\ "validated" \in done) =>
    /\ (tsConfigFilePath = Null) <=> (AncestorsWithConfig = {})
    /\ \A k \in AncestorsWithConfig :
         (\A j \in AncestorsWithConfig : j <= k) =>
           tsConfigFilePath = Append(SubSeq(StartDir, 1, k), TsConfigName)

C4_Witness ==
  /\ pc = "located"
  /\ Len(StartDir) = MaxDepth
  /\ AncestorsWithConfig = {0, 1}
  /\ tsConfigFilePath = <<DirName, TsConfigName>>

\* C5: the exit code is 0 exactly when validation passed, a configuration was
\* found, the transform returned and the save completed; it is 1 when no
\* argument was given, when the path or its extension is invalid, when no
\* ancestor has a tsconfig.json, and when the transform raised.
C5_ExitCodes ==
  /\ pc # "exited" => exitCode = NoExit
  /\ pc = "exited" =>
       /\ exitCode \in {0, 1}
       /\ exitCode = 0 <=>
            /\ Given /\ RecognizedExtension(filePath) /\ PathPresent
            /\ AncestorsWithConfig # {}
            /\ raised = NoError
            /\ {"transformed", "saved"} \subseteq done
       /\ ~Given => exitCode = 1
       /\ (Given /\ ~(RecognizedExtension(filePath) /\ PathPresent)) => exitCode = 1
       /\ (Given /\ AncestorsWithConfig = {}) => exitCode = 1
       /\ raised # NoError => exitCode = 1

C5_Witness ==
  /\ pc = "exited"
  /\ exitCode = 1
  /\ Given /\ RecognizedExtension(filePath) /\ IsFile
  /\ AncestorsWithConfig = {}

\* C6: validateFilePath succeeds exactly when the extension is recognized and
\* the path is an existing file (a directory is not a file); an unrecognized
\* extension gives the extension reason, a recognized one with no file at the
\* path gives the not-found reason; nothing but the result is produced.
C6_ValidatesExistingFile ==
  (Given /\ pc \in {"run", "exit1"} /\ "located" \notin done
     /\ tsConfigFilePath = Null /\ currentDir = Null) =>
    /\ ("validated" \in done) <=> (RecognizedExtension(filePath) /\ IsFile)
    /\ ~RecognizedExtension(filePath) =>
         stderr = << <<Lit("Error: \""), Arg(filePath),
                       Lit("\" is not a valid TypeScript file. "),
                       Lit(ReasonExtension)>> >>
    /\ (RecognizedExtension(filePath) /\ ~IsFile) =>
         stderr = << <<Lit("Error: \""), Arg(filePath),
                       Lit("\" is not a valid TypeScript file. "),
                       Lit(ReasonNotFound)>> >>
    /\ disk = disk0

\* C7: with an argument of unsupported extension the process exits 1 with no
\* tsconfig.json probe, no project, no file load and no write.
C7_RejectedBeforeAnyStage ==
  (Given /\ ~RecognizedExtension(filePath)) =>
    /\ ConfigProbes = <<>>
    /\ \A i \in 1..Len(fsLog) : fsLog[i].op \notin {"read", "write"}
    /\ project = <<>> /\ autoLoaded = {}
    /\ tsConfigFilePath = Null /\ currentDir = Null
    /\ done = {}
    /\ disk = disk0
    /\ pc \in {"start", "validate", "exit1", "exited"}
    /\ pc = "exited" => exitCode = 1

C7_Witness ==
  /\ pc = "exited"
  /\ Given /\ ~RecognizedExtension(filePath)
  /\ IsFile
  /\ 0 \in AncestorsWithConfig
  /\ BaseOf(filePath) = <<"a", Dot, "md">>

\* the error of the taxonomy a run ends in, "none" when it ends in none
ErrorKind ==
  IF ~Given THEN "MissingArgument"
  ELSE IF ~RecognizedExtension(filePath) THEN "InvalidExtension"
  ELSE IF ~PathPresent THEN "FileNotFound"
  ELSE IF AncestorsWithConfig = {} THEN "ConfigurationMissing"
  ELSE IF thrown.kind \in {"ParseError", "WriteError"} THEN thrown.kind
  ELSE IF raised # NoError THEN "MigrationFailed"
  ELSE "none"

\* the stages an invocation ending in the error has completed
StagesBefore(kind) ==
  CASE kind \in {"MissingArgument", "InvalidExtension", "FileNotFound"} -> {}
    [] kind = "ConfigurationMissing" -> {"validated"}
    [] kind = "ParseError" -> {"validated", "located"}
    [] kind = "MigrationFailed" -> {"validated", "located", "built"}
    [] kind = "WriteError" -> {"validated", "located", "built", "transformed"}

NoRetry ==
  /\ Len(Writes) <= 1
  /\ Len(SelectSeq(fsLog, LAMBDA e : e.op = "read" /\ e.path = Target)) <= 1
  /\ Len(SelectSeq(fsLog, LAMBDA e : e.op = "exists" /\ e.path = Target)) <= 1
  /\ Len(stderr) <= 2

\* C8, as claimed: every error of the taxonomy ends the invocation with a
\* non-zero exit status, no retry and no later stage, after a diagnostic that
\* carries the file path (and, for a failed migration, the message of the
\* raised error).  A run without an argument has no file path to carry; the
\* statement is made of the runs whose argument does not name a directory.
C8_EveryDiagnosticCarriesThePath ==
  (pc = "exited" /\ ErrorKind # "none" /\ (PathPresent => IsFile)) =>
    /\ exitCode = 1
    /\ NoRetry
    /\ done = StagesBefore(ErrorKind)
    /\ Given => \E i \in 1..Len(stderr) : CarriesFilePath(stderr[i])
    /\ (ErrorKind = "MigrationFailed" /\ raised.isError) =>
         Carries(stderr[1], "msg", raised.message)

\* C8, amended: every error of the taxonomy ends the invocation with exit
\* status 1, no retry and no later stage, after something was written to
\* stderr.  The diagnostic of the pipeline carries the path for
\* InvalidExtension and FileNotFound (the argument as given) and for
\* MigrationFailed (the resolved path, and the message when an Error was
\* raised); the diagnostics of MissingArgument and ConfigurationMissing name
\* no path; ParseError and WriteError are not caught: the pipeline prints
\* nothing for them and the uncaught rejection is what is reported.
C8_ErrorsAreTerminal ==
  /\ (pc \in {"exit1", "uncaught", "exited"} /\ ErrorKind # "none") =>
       /\ NoRetry
       /\ done = StagesBefore(ErrorKind)
       /\ pc = "uncaught" => stderr = <<>>
       /\ pc # "uncaught" =>
            /\ stderr # <<>>
            /\ ErrorKind \in {"InvalidExtension", "FileNotFound"} =>
                 Len(stderr) = 1 /\ Carries(stderr[1], "arg", filePath)
            /\ ErrorKind = "MigrationFailed" =>
                 /\ Len(stderr) = 1 /\ Carries(stderr[1], "path", Target)
                 /\ raised.isError => Carries(stderr[1], "msg", raised.message)
            /\ ErrorKind \in {"MissingArgument", "ConfigurationMissing"} =>
                 \A i \in 1..Len(stderr) : ~NamesAPath(stderr[i])
            /\ ErrorKind \in {"ParseError", "WriteError"} =>
                 Len(stderr) = 1 /\ Carries(stderr[1], "uncaught", ErrorKind)
  /\ (pc = "exited" /\ ErrorKind # "none") => exitCode = 1
  /\ exitCode # NoExit => pc = "exited"

C8_Witness ==
  /\ pc = "exited"
  /\ ErrorKind = "ConfigurationMissing"
  /\ Len(StartDir) = MaxDepth
  /\ Len(stderr) = 1

WalkInvariant ==
  /\ Len(ConfigProbes) <= Len(StartDir) + 1
  /\ \A i, j \in 1..Len(ConfigProbes) :
       i < j => Len(ConfigProbes[j].path) < Len(ConfigProbes[i].path)
  /\ \A i \in 1..(Len(ConfigProbes) - 1) : ConfigProbes[i].path \notin DOMAIN disk0
  /\ pc = "walk" => \A i \in 1..Len(ConfigProbes) : ConfigProbes[i].path \notin DOMAIN disk0
  /\ pc = "located" =>
       ConfigProbes[Len(ConfigProbes)].path =
         (IF tsConfigFilePath = Null THEN <<TsConfigName>> ELSE tsConfigFilePath)

WalkShrinks == (pc = "walk" /\ pc' = "walk") => Len(currentDir') < Len(currentDir)

C10_WalkTerminates ==
  /\ []WalkInvariant
  /\ [][WalkShrinks]_vars
  /\ (pc = "walk") ~> (pc = "located")

C10_Witness ==
  /\ pc = "located"
  /\ tsConfigFilePath = Null
  /\ Len(StartDir) = MaxDepth
  /\ Len(ConfigProbes) = MaxDepth + 1
====
